---------------------------- MODULE Spec2Model ----------------------------
(***************************************************************************)
(* Model of the selective COG reader of CODGGS-GDC (src/COGParse):         *)
(* the byte decoders of Bytes_Parse.py, the directory-chain walk of        *)
(* cog_header_bytes_parse, the tile lookup / range read of the export      *)
(* loop of COG_Parse.py, and bytes_to_geotiff of Tile_Deserializer.py;     *)
(* and of the overview levels translate_to_COG computes                    *)
(* (src/COGGenerate/dhp/COG_Generate_LRX_copy_from_DHP.py).                *)
(*                                                                         *)
(* A byte buffer is a sequence of integers 0..255; Python's pd[k] is       *)
(* pd[k + 1] here.  A Python call either returns a value or raises: both   *)
(* outcomes are records, Ok(v) and Raise(e).                               *)
(***************************************************************************)
EXTENDS Integers, Sequences, FiniteSets, TLC

(***************************************************************************)
(* Outcomes of a Python expression                                         *)
(***************************************************************************)
Ok(v) == [err |-> "", v |-> v]

Raise(e) == [err |-> e, v |-> 0]

IsOk(r) == r.err = ""

(***************************************************************************)
(* Python list indexing lst[i]: a negative index counts from the end; an   *)
(* index outside -len .. len-1 raises IndexError.                          *)
(***************************************************************************)
PyIndex(lst, i) ==
    IF 0 <= i /\ i < Len(lst) THEN Ok(lst[i + 1])
    ELSE IF i < 0 /\ 0 - i <= Len(lst) THEN Ok(lst[Len(lst) + i + 1])
    ELSE Raise("IndexError")

(***************************************************************************)
(* Bytes_Parse.py                                                          *)
(***************************************************************************)
\* value |= pd[start + i] << i * 8, for i = from .. length - 1 (pd[k] of a
\* bytes object is never negative, so the "value < 0" branch is dead).
RECURSIVE LittleEndian(_, _, _, _)
LittleEndian(pd, start_pos, i, length) ==
    IF i >= length THEN 0
    ELSE pd[start_pos + i + 1] + 256 * LittleEndian(pd, start_pos, i + 1, length)

RECURSIVE Pow256(_)
Pow256(k) == IF k = 0 THEN 1 ELSE 256 * Pow256(k - 1)

\* The top byte of a value of one to three bytes taken as a signed byte.
get_int_ii_signed(pd, start_pos, length) ==
    IF length > 0 /\ start_pos + length > Len(pd) THEN Raise("IndexError")
    ELSE IF length \in 1..3 /\ pd[start_pos + length] >= 128
         THEN Ok(LittleEndian(pd, start_pos, 0, length) - Pow256(length))
         ELSE Ok(LittleEndian(pd, start_pos, 0, length))

\* pd[start_pos + i] raises IndexError as soon as start_pos + i >= len(pd).
get_int_ii(pd, start_pos, length) ==
    IF length > 0 /\ start_pos + length > Len(pd) THEN Raise("IndexError")
    ELSE Ok(LittleEndian(pd, start_pos, 0, length))

get_long(header_bytes_bytes, start, length) ==
    IF length > 0 /\ start + length > Len(header_bytes_bytes) THEN Raise("IndexError")
    ELSE Ok(LittleEndian(header_bytes_bytes, start, 0, length))

\* The 64-bit pattern struct.pack('Q', value) hands to struct.unpack('d'):
\* the `length` bytes read, zero-extended to 8, least significant first.
\* A double is represented by this pattern.
get_double(pd, start_pos, length) ==
    IF length > 0 /\ start_pos + length > Len(pd) THEN Raise("IndexError")
    ELSE Ok([k \in 1..8 |-> IF k <= length THEN pd[start_pos + k] ELSE 0])

\* tile_count without the exact-multiple case of lines 15-16 and 19-20.
tile_count_always_rounds_up(image_size) == image_size \div 256 + 1

\* ceil-division by the fixed tile edge, as lines 15-22 write it.
tile_count(image_size) ==
    IF image_size % 256 = 0 THEN image_size \div 256 ELSE image_size \div 256 + 1

\* The linear index of the value read for band `band`, tile row i, column j.
grid_index(band, i, j, tile_count_x, tile_count_y) == i * tile_count_x + j

\* The largest linear index get_bytes_array reads (-1 when it reads nothing).
max_grid_index(band_count, tile_count_x, tile_count_y) ==
    LET read == {grid_index(b, i, j, tile_count_x, tile_count_y) :
                    b \in 0..(band_count - 1), i \in 0..(tile_count_y - 1),
                    j \in 0..(tile_count_x - 1)}
    IN  IF read = {} THEN 0 - 1 ELSE CHOOSE m \in read : \A x \in read : x <= m

\* strip_offsets: band_count * tile_count_y rows of tile_count_x values; a
\* get_long past the end of the header raises IndexError.
get_bytes_array(start_pos, type_size, header, image_width, image_height, band_count) ==
    LET tile_count_x == tile_count(image_width)
        tile_count_y == tile_count(image_height)
        last == max_grid_index(band_count, tile_count_x, tile_count_y)
    IN  IF last >= 0 /\ type_size > 0 /\ start_pos + (last + 1) * type_size > Len(header)
        THEN Raise("IndexError")
        ELSE Ok([r \in 1..(band_count * tile_count_y) |->
                   [c \in 1..tile_count_x |->
                      LittleEndian(header,
                                   start_pos + grid_index((r - 1) \div tile_count_y,
                                                          (r - 1) % tile_count_y, c - 1,
                                                          tile_count_x, tile_count_y) * type_size,
                                   0, type_size)]])

\* get_double_cell and get_double_trans: `count` doubles, type_size apart.
get_double_cell(start_pos, type_size, count, header) ==
    IF count > 0 /\ type_size > 0 /\ start_pos + count * type_size > Len(header)
    THEN Raise("IndexError")
    ELSE Ok([i \in 1..count |-> get_double(header, start_pos + (i - 1) * type_size, type_size).v])

get_double_trans(start_pos, type_size, count, header) ==
    IF count > 0 /\ type_size > 0 /\ start_pos + count * type_size > Len(header)
    THEN Raise("IndexError")
    ELSE Ok([i \in 1..count |-> get_double(header, start_pos + (i - 1) * type_size, type_size).v])

Min(a, b) == IF a < b THEN a ELSE b

\* bytearray(length) raises ValueError for a negative length; the slice
\* pd[start_pos:start_pos + length] is clamped to the buffer, not checked;
\* decode("ascii") raises on a byte above 127.  A string is the sequence of
\* its character codes.
get_string(pd, start_pos, length) ==
    IF length < 0 THEN Raise("ValueError")
    ELSE LET stop == Min(start_pos + length, Len(pd))
             str_get == IF start_pos >= stop THEN <<>>
                        ELSE [k \in 1..(stop - start_pos) |-> pd[start_pos + k]]
         IN  IF \E k \in 1..Len(str_get) : str_get[k] > 127
             THEN Raise("UnicodeDecodeError")
             ELSE Ok(str_get)

(***************************************************************************)
(* COG_Parse.py                                                            *)
(***************************************************************************)
type_array == <<0, 1, 1, 2, 4, 8, 1, 1, 2, 4, 8, 4, 8>>

\* The table indexed one too low.
type_width_off_by_one(type_index) == PyIndex(type_array, type_index - 1)

\* type_array[type_index]
type_width(type_index) == PyIndex(type_array, type_index)

\* The locals of cog_header_bytes_parse after lines 41-52 and 55, before
\* line 54 runs.  pc is the position in the function: "ifh" (line 54),
\* "while" (line 57), "for" (line 60), "done" (line 118 returned
\* result_dict) and "raised" (an exception left the function; err names it).
\* de_i counts the iterations of the for loop of line 60.
W0 ==
    [pc |-> "ifh", err |-> "", ifh |-> 0, de_count |-> 0, de_i |-> 0,
     overview_level |-> 0 - 1,
     image_width |-> <<>>, image_height |-> <<>>, bit_per_sample |-> <<>>,
     tile_offsets |-> <<>>, tile_byte_counts |-> <<>>,
     cell_scale |-> <<>>, geo_transform |-> <<>>, crs |-> <<>>,
     band_count |-> <<>>, sample_format |-> <<>>,
     gdal_metadata |-> <<>>, gdal_nodata |-> <<>>]

\* An exception propagates out of cog_header_bytes_parse: nothing catches it.
Fail(w, e) == [w EXCEPT !.pc = "raised", !.err = e]

\* Line 54: ifh = get_int_ii(header_bytes, 4, 4)
read_ifh(h, w) ==
    LET r == get_int_ii(h, 4, 4)
    IN  IF IsOk(r) THEN [w EXCEPT !.ifh = r.v, !.pc = "while"] ELSE Fail(w, r.err)

\* Lines 57 and 103-118: ifh = 0 ends the loop and the index is returned.
return_result(w) == [w EXCEPT !.pc = "done"]

\* The entry count taken to be four bytes wide.
begin_block_skips_4(h, w) ==
    LET r == get_int_ii(h, w.ifh, 2)
    IN  IF IsOk(r)
        THEN [w EXCEPT !.de_count = r.v, !.de_i = 0, !.ifh = @ + 4, !.pc = "for"]
        ELSE Fail(w, r.err)

\* Lines 58-59: the entry count of the block at ifh.
begin_block(h, w) ==
    LET r == get_int_ii(h, w.ifh, 2)
    IN  IF IsOk(r)
        THEN [w EXCEPT !.de_count = r.v, !.de_i = 0, !.ifh = @ + 2, !.pc = "for"]
        ELSE Fail(w, r.err)

\* The three lists a grid tag indexes with overview_level (lines 82-83, 86-87).
level_dims(w) ==
    LET iw == PyIndex(w.image_width, w.overview_level)
        ih == PyIndex(w.image_height, w.overview_level)
        bc == PyIndex(w.band_count, w.overview_level)
    IN  IF ~IsOk(iw) THEN iw ELSE IF ~IsOk(ih) THEN ih ELSE IF ~IsOk(bc) THEN bc
        ELSE Ok([image_width |-> iw.v, image_height |-> ih.v, band_count |-> bc.v])

\* Lines 80-87: the grid of a tileOffsets / tileByteCounts entry.
level_grid(h, w, p_data, type_size) ==
    LET d == level_dims(w)
    IN  IF ~IsOk(d) THEN d
        ELSE get_bytes_array(p_data, type_size, h, d.v.image_width, d.v.image_height,
                             d.v.band_count)

\* Lines 71-99: the effect of one entry, by tag.
dispatch(h, w, tag_index, type_size, count, p_data) ==
    LET int == get_int_ii(h, p_data, type_size)
        str == get_string(h, p_data, type_size * count - 1)
    IN  CASE tag_index = 256 ->
               IF IsOk(int)
               THEN [w EXCEPT !.image_width = Append(@, int.v), !.overview_level = @ + 1]
               ELSE Fail(w, int.err)
          [] tag_index = 257 ->
               IF IsOk(int) THEN [w EXCEPT !.image_height = Append(@, int.v)]
               ELSE Fail(w, int.err)
          [] tag_index = 258 ->
               IF IsOk(int) THEN [w EXCEPT !.bit_per_sample = Append(@, int.v)]
               ELSE Fail(w, int.err)
          [] tag_index = 277 ->
               IF IsOk(int) THEN [w EXCEPT !.band_count = Append(@, int.v)]
               ELSE Fail(w, int.err)
          [] tag_index = 324 ->
               LET g == level_grid(h, w, p_data, type_size)
               IN  IF IsOk(g) THEN [w EXCEPT !.tile_offsets = Append(@, g.v)]
                   ELSE Fail(w, g.err)
          [] tag_index = 325 ->
               LET g == level_grid(h, w, p_data, type_size)
               IN  IF IsOk(g) THEN [w EXCEPT !.tile_byte_counts = Append(@, g.v)]
                   ELSE Fail(w, g.err)
          [] tag_index = 339 ->
               IF IsOk(int) THEN [w EXCEPT !.sample_format = Append(@, int.v)]
               ELSE Fail(w, int.err)
          [] tag_index = 33550 ->
               LET c == get_double_cell(p_data, type_size, count, h)
               IN  IF IsOk(c) THEN [w EXCEPT !.cell_scale = c.v] ELSE Fail(w, c.err)
          [] tag_index = 33922 ->
               LET g == get_double_trans(p_data, type_size, count, h)
               IN  IF IsOk(g) THEN [w EXCEPT !.geo_transform = g.v] ELSE Fail(w, g.err)
          [] tag_index = 34737 ->
               IF IsOk(str) THEN [w EXCEPT !.crs = str.v] ELSE Fail(w, str.err)
          [] tag_index = 42112 ->
               IF IsOk(str) THEN [w EXCEPT !.gdal_metadata = str.v] ELSE Fail(w, str.err)
          [] tag_index = 42113 ->
               IF IsOk(str) THEN [w EXCEPT !.gdal_nodata = str.v] ELSE Fail(w, str.err)
          [] OTHER -> w

\* A value of exactly four bytes taken to be out of line.
entry_header_points_at_4(h, ifh) ==
    LET tag_index == get_int_ii(h, ifh, 2)
        type_index == get_int_ii(h, ifh + 2, 2)
        count == get_int_ii(h, ifh + 4, 4)
    IN  IF ~IsOk(tag_index) THEN tag_index
        ELSE IF ~IsOk(type_index) THEN type_index
        ELSE IF ~IsOk(count) THEN count
        ELSE LET type_size == type_width(type_index.v)
             IN  IF ~IsOk(type_size) THEN type_size
                 ELSE LET total_size == type_size.v * count.v
                          p_data == IF total_size >= 4 THEN get_int_ii(h, ifh + 8, 4)
                                    ELSE Ok(ifh + 8)
                      IN  IF ~IsOk(p_data) THEN p_data
                          ELSE Ok([tag_index |-> tag_index.v, type_index |-> type_index.v,
                                   count |-> count.v, type_size |-> type_size.v,
                                   p_data |-> p_data.v])

\* Lines 61-70: tag, type and count of the entry at ifh, and where its value is.
entry_header(h, ifh) ==
    LET tag_index == get_int_ii(h, ifh, 2)
        type_index == get_int_ii(h, ifh + 2, 2)
        count == get_int_ii(h, ifh + 4, 4)
    IN  IF ~IsOk(tag_index) THEN tag_index
        ELSE IF ~IsOk(type_index) THEN type_index
        ELSE IF ~IsOk(count) THEN count
        ELSE LET type_size == type_width(type_index.v)
             IN  IF ~IsOk(type_size) THEN type_size
                 ELSE LET total_size == type_size.v * count.v
                          p_data == IF total_size > 4 THEN get_int_ii(h, ifh + 8, 4)
                                    ELSE Ok(ifh + 8)
                      IN  IF ~IsOk(p_data) THEN p_data
                          ELSE Ok([tag_index |-> tag_index.v, type_index |-> type_index.v,
                                   count |-> count.v, type_size |-> type_size.v,
                                   p_data |-> p_data.v])

\* An entry of a shared tag skipped when its field is set already.
directory_entry_keeps_first(h, w) ==
    LET e == entry_header(h, w.ifh)
    IN  IF ~IsOk(e) THEN Fail(w, e.err)
        ELSE LET set == \/ e.v.tag_index = 33550 /\ w.cell_scale # <<>>
                        \/ e.v.tag_index = 33922 /\ w.geo_transform # <<>>
                        \/ e.v.tag_index = 34737 /\ w.crs # <<>>
                        \/ e.v.tag_index = 42112 /\ w.gdal_metadata # <<>>
                        \/ e.v.tag_index = 42113 /\ w.gdal_nodata # <<>>
                 after == IF set THEN w
                          ELSE dispatch(h, w, e.v.tag_index, e.v.type_size, e.v.count,
                                        e.v.p_data)
             IN  IF after.pc = "raised" THEN after
                 ELSE [after EXCEPT !.ifh = @ + 12, !.de_i = @ + 1]

\* Lines 61-101: one iteration of the for loop.
directory_entry(h, w) ==
    LET e == entry_header(h, w.ifh)
    IN  IF ~IsOk(e) THEN Fail(w, e.err)
        ELSE LET after == dispatch(h, w, e.v.tag_index, e.v.type_size, e.v.count, e.v.p_data)
             IN  IF after.pc = "raised" THEN after
                 ELSE [after EXCEPT !.ifh = @ + 12, !.de_i = @ + 1]

\* Line 102: the next-block offset, read once the for loop is exhausted.
next_block(h, w) ==
    LET r == get_int_ii(h, w.ifh, 4)
    IN  IF IsOk(r) THEN [w EXCEPT !.ifh = r.v, !.pc = "while"] ELSE Fail(w, r.err)

\* One step of cog_header_bytes_parse from position w.pc.
walk_step(h, w) ==
    CASE w.pc = "ifh" -> read_ifh(h, w)
      [] w.pc = "while" -> IF w.ifh = 0 THEN return_result(w) ELSE begin_block(h, w)
      [] w.pc = "for" -> IF w.de_i < w.de_count THEN directory_entry(h, w)
                         ELSE next_block(h, w)
      [] OTHER -> w

\* Lines 103-117: result_dict.
result_dict(w) ==
    [image_width |-> w.image_width, image_height |-> w.image_height,
     bit_per_sample |-> w.bit_per_sample, band_count |-> w.band_count,
     tile_offsets |-> w.tile_offsets, tile_byte_counts |-> w.tile_byte_counts,
     sample_format |-> w.sample_format, cell_scale |-> w.cell_scale,
     geo_transform |-> w.geo_transform, crs |-> w.crs,
     gdal_metadata |-> w.gdal_metadata, gdal_nodata |-> w.gdal_nodata]

(***************************************************************************)
(* Input: synthetic header buffers laid out by the wire contract the       *)
(* walker reads (8-byte file header, then per directory block a 2-byte     *)
(* entry count, 12-byte entries, a 4-byte next-block offset and the        *)
(* out-of-line values of the block).                                       *)
(***************************************************************************)
MaxLevels == 2

MaxBands == 2

\* Base-level (width, height): a single pixel, one short of, exactly on and
\* one past the tile edge, and a multiple of it.
DimPairs == {<<1, 300>>, <<255, 257>>, <<256, 256>>, <<257, 512>>, <<512, 255>>}

\* (bits per sample, sample format)
SampleTypes == {<<8, 1>>, <<16, 2>>}

RECURSIVE Concat(_)
Concat(ss) == IF ss = <<>> THEN <<>> ELSE Head(ss) \o Concat(Tail(ss))

RECURSIVE SumSeq(_)
SumSeq(ns) == IF ns = <<>> THEN 0 ELSE Head(ns) + SumSeq(Tail(ns))

RECURSIVE Pow2(_)
Pow2(k) == IF k = 0 THEN 1 ELSE 2 * Pow2(k - 1)

RECURSIVE LE(_, _)
LE(v, n) == IF n = 0 THEN <<>> ELSE <<v % 256>> \o LE(v \div 256, n - 1)

CeilDiv(a, b) == (a + b - 1) \div b

\* Level k (0 = base) of a pyramid halves the base size k times.
LevelWidth(f, k) == CeilDiv(f.dims[1], Pow2(k))

LevelHeight(f, k) == CeilDiv(f.dims[2], Pow2(k))

\* The number of tiles the encoder writes for level k, and the value it
\* writes at linear index n (band-major, then row, then column) of each grid.
GridCount(f, k) ==
    f.bands * CeilDiv(LevelHeight(f, k), 256) * CeilDiv(LevelWidth(f, k), 256)

OffsetAt(k, n) == 10000 * (k + 1) + 100 * n

\* Tiles are stored uncompressed: 256 * 256 samples each.
ByteCountAt(f) == 256 * 256 * (f.sample[1] \div 8)

\* The 8 bytes of an IEEE double, least significant first; e selects the
\* exponent bits, so different e give different doubles.
DoubleBytes(e) == <<0, 0, 0, 0, 0, 0, 8 * (e % 16), 64>>

CrsText == <<87, 71, 83, 56, 52, 124>>

MetadataText == <<60, 71, 47, 62>>

NodataText == <<48>>

Entry(tag, type, count, val) == [tag |-> tag, type |-> type, count |-> count, val |-> val]

\* The entries of the directory block of level k, in ascending tag order.
LevelEntries(f, k) ==
    LET n == GridCount(f, k)
    IN  << Entry(256, 3, 1, LE(LevelWidth(f, k), 2)),
           Entry(257, 3, 1, LE(LevelHeight(f, k), 2)),
           Entry(258, 3, f.bands, Concat([b \in 1..f.bands |-> LE(f.sample[1], 2)])),
           Entry(277, 3, 1, LE(f.bands, 2)),
           Entry(322, 3, 1, LE(256, 2)),
           Entry(324, 4, n, Concat([i \in 1..n |-> LE(OffsetAt(k, i - 1), 4)])),
           Entry(325, 4, n, Concat([i \in 1..n |-> LE(ByteCountAt(f), 4)])),
           Entry(339, 3, f.bands, Concat([b \in 1..f.bands |-> LE(f.sample[2], 2)])) >>
        \o (IF k > 0 THEN <<>>
            ELSE << Entry(33550, 12, 3, Concat([i \in 1..3 |-> DoubleBytes(i)])),
                    Entry(33922, 12, 6, Concat([i \in 1..6 |-> DoubleBytes(i + 3)])),
                    Entry(34737, 2, Len(CrsText) + 1, CrsText \o <<0>>),
                    Entry(42112, 2, Len(MetadataText) + 1, MetadataText \o <<0>>),
                    Entry(42113, 2, Len(NodataText) + 1, NodataText \o <<0>>) >>)

Outline(e) == IF Len(e.val) > 4 THEN e.val ELSE <<>>

BlockSize(b) ==
    2 + 12 * Len(b.entries) + 4 + SumSeq([i \in 1..Len(b.entries) |-> Len(Outline(b.entries[i]))])

BlockOffset(blocks, k) == 8 + SumSeq([j \in 1..(k - 1) |-> BlockSize(blocks[j])])

\* Where the out-of-line value of entry i of the block at offset o lies.
DataOffset(b, o, i) ==
    o + 2 + 12 * Len(b.entries) + 4 + SumSeq([j \in 1..(i - 1) |-> Len(Outline(b.entries[j]))])

EntryBytes(e, dataOff) ==
    LE(e.tag, 2) \o LE(e.type, 2) \o LE(e.count, 4)
    \o (IF Len(e.val) > 4 THEN LE(dataOff, 4)
        ELSE e.val \o [i \in 1..(4 - Len(e.val)) |-> 0])

\* A block: its entries b.entries, written in the order b.order (a
\* permutation of their indices), the values staying where they are.
BlockBytes(b, o, nextOff) ==
    LE(Len(b.entries), 2)
    \o Concat([i \in 1..Len(b.order) |->
                 EntryBytes(b.entries[b.order[i]], DataOffset(b, o, b.order[i]))])
    \o LE(nextOff, 4)
    \o Concat([i \in 1..Len(b.entries) |-> Outline(b.entries[i])])

NextOffset(blocks, k) ==
    CASE blocks[k].next = "self" -> BlockOffset(blocks, k)
      [] blocks[k].next = "end" -> 0
      [] OTHER -> BlockOffset(blocks, k + 1)

FileBytes(blocks) ==
    <<73, 73, 42, 0>> \o LE(IF blocks = <<>> THEN 0 ELSE 8, 4)
    \o Concat([k \in 1..Len(blocks) |->
                 BlockBytes(blocks[k], BlockOffset(blocks, k), NextOffset(blocks, k))])

Identity(n) == [i \in 1..n |-> i]

IsGrid(e) == e.tag \in {324, 325}

\* Orders in which an encoder may write the entries of a block.
OrderKinds == {"grids_first", "reversed"}

EntryOrder(entries, kind) ==
    LET n == Len(entries)
    IN  CASE kind = "grids_first" ->
               SelectSeq(Identity(n), LAMBDA i : IsGrid(entries[i]))
               \o SelectSeq(Identity(n), LAMBDA i : ~IsGrid(entries[i]))
          [] kind = "reversed" -> [i \in 1..n |-> n + 1 - i]
          [] OTHER -> Identity(n)

\* (type code, count) of an entry with a tag the walker does not know:
\* a short, two out-of-line doubles, a type code past the table, type 0.
UnknownShapes == {<<3, 1>>, <<12, 2>>, <<13, 1>>, <<0, 5>>}

UnknownEntry(shape) ==
    Entry(270, shape[1], shape[2],
          IF shape = <<12, 2>> THEN DoubleBytes(1) \o DoubleBytes(2) ELSE <<7, 0, 0, 0>>)

InsertAt(seq, i, x) == SubSeq(seq, 1, i - 1) \o <<x>> \o SubSeq(seq, i, Len(seq))

\* A block that describes no level: one entry the walker does not know.
TailBlock(next) ==
    [entries |-> <<Entry(322, 3, 1, LE(256, 2))>>, order |-> <<1>>, next |-> next]

Files ==
    [dims : DimPairs, bands : 1..MaxBands, sample : SampleTypes, levels : 1..MaxLevels]

LevelBlocks(f) ==
    [k \in 1..f.levels |->
       [entries |-> LevelEntries(f, k - 1), order |-> Identity(Len(LevelEntries(f, k - 1))),
        next |-> IF k = f.levels THEN "end" ELSE "next"]]

\* Sample types get_data_type has no numpy type for: 16-bit floats, and
\* 64-bit samples of sample format 4 (undefined data format).
OtherSampleTypes == {<<16, 3>>, <<64, 4>>}

\* Values of tag 34737 other than CrsText and its NUL: another reference
\* system, NUL-terminated, and CrsText written without the NUL.
OtherCrsText == <<114, 72, 69, 65, 76, 80, 105, 120, 124>>

CrsValues == {OtherCrsText \o <<0>>, CrsText}

\* The tags a level block may lack.
DroppedTags == {256, 257, 277}

ReplaceTag(entries, e) ==
    [i \in 1..Len(entries) |-> IF entries[i].tag = e.tag THEN e ELSE entries[i]]

\* Headers that describe no level: a first-block offset of 0, and a chain
\* whose only block carries no width tag.
NoLevelKinds == {"no_block", "no_width"}

\* Bytes 0..3 of a header: the little-endian and the big-endian byte-order
\* marker, and four zero bytes.
Markers == {<<73, 73, 42, 0>>, <<77, 77, 0, 42>>, <<0, 0, 0, 0>>}

\* Where the value of the tag 34737 entry lies: after its block, as
\* LevelEntries lays it out, or at offset 0 of the header.
CrsOffsets == {"own", "marker"}

\* The tags whose field the index holds once, for all levels.
SharedTags == {33550, 33922, 34737, 42112, 42113}

\* A second entry of a shared tag, with another value than LevelEntries
\* gives the tag in the first block.
OtherShared(tag) ==
    CASE tag = 33550 -> Entry(33550, 12, 3, Concat([i \in 1..3 |-> DoubleBytes(i + 9)]))
      [] tag = 33922 -> Entry(33922, 12, 6, Concat([i \in 1..6 |-> DoubleBytes(i + 9)]))
      [] tag = 34737 -> Entry(34737, 2, Len(OtherCrsText) + 1, OtherCrsText \o <<0>>)
      [] tag = 42112 -> Entry(42112, 2, 3, <<60, 62, 0>>)
      [] tag = 42113 -> Entry(42113, 2, 3, <<45, 49, 0>>)

\* The blocks of scenario d: a well-formed pyramid d.f, changed in one way.
Blocks(d) ==
    LET base == LevelBlocks(d.f)
        n == Len(base)
    IN  CASE d.kind = "nolevel" ->
               IF d.arg = "no_block" THEN <<>> ELSE <<TailBlock("end")>>
          [] d.kind = "shared" ->
               [base EXCEPT ![n].entries = Append(@, OtherShared(d.arg)),
                            ![n].order = Identity(Len(base[n].entries) + 1)]
          [] d.kind = "marker" ->
               IF d.arg.crs_at = "own" THEN base
               ELSE [base EXCEPT ![1].entries = ReplaceTag(@, Entry(34737, 2, 5, LE(0, 4)))]
          [] d.kind = "order" ->
               [base EXCEPT ![n].order = EntryOrder(base[n].entries, d.arg)]
          [] d.kind = "unknown" ->
               [base EXCEPT ![n].entries = InsertAt(@, 4, UnknownEntry(d.arg)),
                            ![n].order = Identity(Len(base[n].entries) + 1)]
          [] d.kind = "tail" ->
               Append([base EXCEPT ![n].next = "next"], TailBlock(d.arg))
          [] d.kind = "sample" -> LevelBlocks([d.f EXCEPT !.sample = d.arg])
          [] d.kind = "crs" ->
               [base EXCEPT ![1].entries = ReplaceTag(@, Entry(34737, 2, Len(d.arg), d.arg))]
          [] d.kind = "drop" ->
               [base EXCEPT ![n].entries = SelectSeq(@, LAMBDA e : e.tag # d.arg),
                            ![n].order = Identity(Len(base[n].entries) - 1)]
          [] d.kind = "short_tile" ->
               [k \in 1..n |->
                  [base[k] EXCEPT !.entries =
                     ReplaceTag(@, Entry(325, 4, GridCount(d.f, k - 1),
                                         Concat([i \in 1..GridCount(d.f, k - 1) |->
                                                   LE(ByteCountAt(d.f) - d.arg, 4)])))]]
          [] OTHER -> base

\* Lengths at which a header prefix stops short: inside the file header,
\* inside a block's entry count, second entry and next-block offset, and one
\* and two bytes before the end of each out-of-line value.
Marks(blocks) ==
    {6}
    \cup UNION {LET o == BlockOffset(blocks, k)
                    b == blocks[k]
                IN  {o + 1, o + 2 + 12 + 5, o + 2 + 12 * Len(b.entries) + 2}
                    \cup UNION {IF Len(b.entries[i].val) > 4
                                THEN {DataOffset(b, o, i) + Len(b.entries[i].val) - 1,
                                      DataOffset(b, o, i) + Len(b.entries[i].val) - 2}
                                ELSE {} : i \in 1..Len(b.entries)}
                : k \in 1..Len(blocks)}

\* The pyramid the scenarios that do not vary the pyramid are built on.
OneFile == [dims |-> <<256, 256>>, bands |-> 1, sample |-> <<8, 1>>, levels |-> 1]

Scenarios ==
    {[f |-> OneFile, kind |-> "nolevel", arg |-> a] : a \in NoLevelKinds}
    \cup {[f |-> OneFile, kind |-> "marker", arg |-> [marker |-> m, crs_at |-> a]] :
            m \in Markers, a \in CrsOffsets}
    \cup {[f |-> [OneFile EXCEPT !.levels = MaxLevels], kind |-> "shared", arg |-> a] :
            a \in SharedTags}
    \cup
    UNION {   {[f |-> f, kind |-> "plain", arg |-> 0]}
         \cup {[f |-> f, kind |-> "order", arg |-> a] : a \in OrderKinds}
         \cup {[f |-> f, kind |-> "unknown", arg |-> a] : a \in UnknownShapes}
         \cup {[f |-> f, kind |-> "tail", arg |-> a] : a \in {"end", "self"}}
         \cup {[f |-> f, kind |-> "cut", arg |-> a] : a \in Marks(LevelBlocks(f))}
         \cup {[f |-> f, kind |-> "sample", arg |-> a] : a \in OtherSampleTypes}
         \cup {[f |-> f, kind |-> "crs", arg |-> a] : a \in CrsValues}
         \cup {[f |-> f, kind |-> "drop", arg |-> a] : a \in DroppedTags}
         \cup {[f |-> f, kind |-> "short_tile", arg |-> a] : a \in {1}}
         : f \in Files}

\* The header prefix the caller fetched for scenario d.
Header(d) ==
    LET all == FileBytes(Blocks(d))
    IN  CASE d.kind = "cut" -> SubSeq(all, 1, d.arg)
          [] d.kind = "marker" -> d.arg.marker \o SubSeq(all, 5, Len(all))
          [] OTHER -> all

(***************************************************************************)
(* The export loop of COG_Parse.py and the range-read store                *)
(***************************************************************************)
\* Lines 145-146: result_dict['tile_offsets'][level][row][col] and
\* result_dict['tile_byte_counts'][level][row][col].
grid_lookup(grids, overview_level, row_key, col_key) ==
    LET g == PyIndex(grids, overview_level)
    IN  IF ~IsOk(g) THEN g
        ELSE LET r == PyIndex(g.v, row_key)
             IN  IF ~IsOk(r) THEN r ELSE PyIndex(r.v, col_key)

tile_lookup(rd, overview_level, row_key, col_key) ==
    LET o == grid_lookup(rd.tile_offsets, overview_level, row_key, col_key)
        c == grid_lookup(rd.tile_byte_counts, overview_level, row_key, col_key)
    IN  IF ~IsOk(o) THEN o ELSE IF ~IsOk(c) THEN c
        ELSE Ok([tile_offset |-> o.v, tile_byte_count |-> c.v])

\* Tile_Deserializer.py lines 40-65: the sample width in bytes of the numpy
\* type returned, 0 standing for None (also returned by falling off the end
\* of the if chain).
get_data_type(sample_format, bit_per_sample) ==
    IF sample_format \in {1, 2} /\ bit_per_sample \in {8, 16, 32, 64}
    THEN bit_per_sample \div 8
    ELSE IF sample_format = 3 /\ bit_per_sample \in {32, 64} THEN bit_per_sample \div 8
    ELSE 0

\* np.frombuffer(byte_array, dtype=None) reads float64 samples.
itemsize(data_type) == IF data_type = 0 THEN 8 ELSE data_type

\* The byte at position pos of the stored object: the bytes repeat with a
\* period that divides no row length, so a row differs from the rows near it.
ObjectByte(pos) == pos % 251

\* A numpy array is a view of its buffer: the samples are `itemsize` bytes
\* wide, and element (r, c) is the sample at index offset + r * strides[1]
\* + c * strides[2] of the buffer.
\* Line 11: np.frombuffer(byte_array, dtype=data_type)
frombuffer(byte_array, data_type) ==
    LET size == itemsize(data_type)
    IN  IF byte_array.none THEN Raise("TypeError")
        ELSE IF byte_array.len % size # 0 THEN Raise("ValueError")
        ELSE Ok([base |-> byte_array, itemsize |-> size,
                 shape |-> <<byte_array.len \div size>>, offset |-> 0, strides |-> <<1>>])

\* Line 12: data_array.reshape(256, 256)
reshape(a, rows, cols) ==
    IF a.shape[1] # rows * cols THEN Raise("ValueError")
    ELSE Ok([a EXCEPT !.shape = <<rows, cols>>, !.strides = <<cols, 1>>])

\* The columns reversed in place of the rows: data_array[:, ::-1]
reverse_columns(a) ==
    [a EXCEPT !.offset = @ + (a.shape[2] - 1) * a.strides[2],
              !.strides = <<a.strides[1], 0 - a.strides[2]>>]

\* Line 13: data_array[::-1, :]
reverse_rows(a) ==
    [a EXCEPT !.offset = @ + (a.shape[1] - 1) * a.strides[1],
              !.strides = <<0 - a.strides[1], a.strides[2]>>]

\* Sample `index` of buffer `base` read as samples of `size` bytes: its
\* bytes, least significant first.
sample(base, size, index) ==
    [b \in 1..size |-> ObjectByte(base.start + index * size + b - 1)]

\* a[r, c] of a two-dimensional array, as dst.write(data_array, 1) reads it.
element(a, r, c) ==
    sample(a.base, a.itemsize, a.offset + r * a.strides[1] + c * a.strides[2])

\* The value of the double with the bit pattern `bits` (8 bytes, least
\* significant first), for the patterns whose low six bytes are zero and
\* whose value is an integer: sign, 11 exponent bits, 4 mantissa bits.
float64(bits) ==
    IF bits[7] = 0 /\ (bits[8] % 128) = 0 THEN 0
    ELSE LET exponent == (bits[8] % 128) * 16 + (bits[7] \div 16) - 1023
             mantissa == 16 + (bits[7] % 16)
             magnitude == (mantissa * Pow2(exponent)) \div 16
         IN  IF bits[8] >= 128 THEN 0 - magnitude ELSE magnitude

\* 2 ** overview_level * 256, which is an integer from level -8 on.
level_scale(overview_level) == Pow2(overview_level + 8)

\* The bounds read the y origin from geo_transform[3] as well.
tile_bounds_y_from_x(rd, overview_level, row_key, col_key) ==
    LET gx == float64(rd.geo_transform[4])
        gy == float64(rd.geo_transform[4])
        cx == float64(rd.cell_scale[1])
        cy == float64(rd.cell_scale[2])
    IN  <<gx + cx * level_scale(overview_level) * col_key,
          gy - cy * level_scale(overview_level) * row_key,
          gx + cx * level_scale(overview_level) * (col_key + 1),
          gy - cy * level_scale(overview_level) * (row_key + 1)>>

\* Lines 24-27: the four bounds handed to from_bounds, in argument order.
tile_bounds(rd, overview_level, row_key, col_key) ==
    LET gx == float64(rd.geo_transform[4])
        gy == float64(rd.geo_transform[5])
        cx == float64(rd.cell_scale[1])
        cy == float64(rd.cell_scale[2])
    IN  <<gx + cx * level_scale(overview_level) * col_key,
          gy - cy * level_scale(overview_level) * row_key,
          gx + cx * level_scale(overview_level) * (col_key + 1),
          gy - cy * level_scale(overview_level) * (row_key + 1)>>

\* Line 22: CRS.from_user_input('EPSG:4326'), as the text it is made from.
Epsg4326 == <<69, 80, 83, 71, 58, 52, 51, 50, 54>>

\* Lines 16-28: the metadata dict; the transform is kept as the bounds and
\* the size from_bounds makes it from.
metadata_dict(data_type, rd, overview_level, row_key, col_key) ==
    [width |-> 256, height |-> 256, count |-> 1, dtype |-> data_type,
     driver |-> "GTiff", crs |-> Epsg4326,
     transform |-> [bounds |-> tile_bounds(rd, overview_level, row_key, col_key),
                    width |-> 256, height |-> 256]]

\* Tile_Deserializer.py lines 7-37.  rasterio.open in 'w' mode raises
\* TypeError for dtype None; otherwise the file written holds the array
\* and the metadata.
bytes_to_geotiff(byte_array, rd, overview_level, row_key, col_key) ==
    LET sf == PyIndex(rd.sample_format, overview_level)
        bps == PyIndex(rd.bit_per_sample, overview_level)
    IN  IF ~IsOk(sf) THEN sf ELSE IF ~IsOk(bps) THEN bps
        ELSE LET data_type == get_data_type(sf.v, bps.v)
                 flat == frombuffer(byte_array, data_type)
             IN  IF ~IsOk(flat) THEN flat
                 ELSE LET square == reshape(flat.v, 256, 256)
                      IN  IF ~IsOk(square) THEN square
                          ELSE IF ~IsOk(PyIndex(rd.geo_transform, 4))
                                  \/ ~IsOk(PyIndex(rd.cell_scale, 1))
                               THEN Raise("IndexError")
                          ELSE IF data_type = 0 THEN Raise("TypeError")
                          ELSE Ok([samples |-> flat.v.shape[1], itemsize |-> flat.v.itemsize,
                                   data_array |-> reverse_rows(square.v),
                                   metadata |-> metadata_dict(data_type, rd, overview_level,
                                                              row_key, col_key)])

\* What the store may answer to one range read of `length` bytes:
\* all of them, fewer, or an error.
StoreAnswers(length) ==
    {[kind |-> "data", len |-> n] : n \in {length, length - 1, length \div 2}}
    \cup {[kind |-> "error", len |-> 0]}

\* No buffer: None.
NoBytes == [none |-> TRUE, len |-> 0, start |-> 0]

\* Lines 31-36: one bucket_exists call, then at most one get_object call,
\* whose data is returned as it comes: the bytes of the object from
\* `offset` on, as many as the store answered.  `answer` is the store's
\* answer to that call.  reads counts the get_object calls made.
minio_get_object(bucket_exists, offset, answer) ==
    IF ~bucket_exists THEN [raised |-> "", reads |-> 0, data |-> NoBytes]
    ELSE IF answer.kind = "error"
         THEN [raised |-> "S3Error", reads |-> 1, data |-> NoBytes]
         ELSE [raised |-> "", reads |-> 1,
               data |-> [none |-> FALSE, len |-> answer.len, start |-> offset]]

\* Lines 121-122
get_tile(bucket_exists, tile_offset, answer) ==
    minio_get_object(bucket_exists, tile_offset, answer)

\* No array and no file: what a request holds before its tile is written.
NoTile ==
    [data_array |-> [base |-> NoBytes, itemsize |-> 0, shape |-> <<>>, offset |-> 0,
                     strides |-> <<>>],
     metadata |-> [width |-> 0]]

(***************************************************************************)
(* State                                                                   *)
(***************************************************************************)
VARIABLES
    desc,          \* the scenario the header was built from (never read by the code)
    header_bytes,  \* the buffer passed to cog_header_bytes_parse
    w,             \* the locals of cog_header_bytes_parse and its position
    visited,       \* the offsets of the blocks the walk has entered, in order
    t,             \* one tile request of the export loop
    callers,       \* the requests of concurrent callers and the files they wrote
    export,        \* the position of the export loops and the tiles they asked for
    gen            \* the locals of translate_to_COG and its position

vars == <<desc, header_bytes, w, visited, t, callers, export, gen>>

\* How many entered blocks `visited` remembers.
MaxVisited == 4

T0 ==
    [pc |-> "idle", err |-> "", at |-> "", level |-> 0, row |-> 0, col |-> 0,
     tile_offset |-> 0, tile_byte_count |-> 0, reads |-> 0, answers |-> <<>>,
     data |-> NoBytes, samples |-> 0, tile |-> NoTile]

\* No concurrent caller.
NoCallers == [reqs |-> <<>>, files |-> {}]

\* The export loops not entered.
E0 ==
    [pc |-> "idle", err |-> "", levels |-> <<>>, rows |-> 0, cols |-> 0,
     overview_level |-> 0, row_key |-> 0, col_key |-> 0, requested |-> <<>>]

\* translate_to_COG not called.
G0 ==
    [pc |-> "idle", RasterXSize |-> 0, RasterYSize |-> 0, tilesize |-> 1, maxLevel |-> 0,
     levels |-> <<>>, i |-> 0, level |-> 0]

\* Lines 144-146 for request q: the offset and byte count of its tile.
looked_up(q, rd, level, row, col) ==
    LET r == tile_lookup(rd, level, row, col)
    IN  IF IsOk(r)
        THEN [q EXCEPT !.pc = "lookup", !.level = level, !.row = row, !.col = col,
                       !.tile_offset = r.v.tile_offset,
                       !.tile_byte_count = r.v.tile_byte_count]
        ELSE [q EXCEPT !.pc = "raised", !.level = level, !.row = row, !.col = col,
                       !.err = r.err, !.at = "lookup"]

\* Line 144 for request q: get_tile.
fetched(q, bucket_exists, answer) ==
    LET r == get_tile(bucket_exists, q.tile_offset, answer)
    IN  IF r.raised # ""
        THEN [q EXCEPT !.pc = "raised", !.err = r.raised, !.at = "get_tile",
                       !.reads = r.reads,
                       !.answers = IF r.reads > 0 THEN <<answer>> ELSE <<>>]
        ELSE [q EXCEPT !.pc = "bytes", !.data = r.data, !.reads = r.reads,
                       !.answers = IF r.reads > 0 THEN <<answer>> ELSE <<>>]

\* Lines 147-149 for request q: bytes_to_geotiff.
materialized(q, rd) ==
    LET r == bytes_to_geotiff(q.data, rd, q.level, q.row, q.col)
    IN  IF IsOk(r)
        THEN [q EXCEPT !.pc = "written", !.samples = r.v.samples,
                       !.tile = [data_array |-> r.v.data_array, metadata |-> r.v.metadata]]
        ELSE [q EXCEPT !.pc = "raised", !.err = r.err, !.at = "bytes_to_geotiff"]

Init ==
    /\ desc \in Scenarios
    /\ header_bytes = Header(desc)
    /\ w = W0
    /\ visited = <<>>
    /\ t = T0
    /\ callers = NoCallers
    /\ export = E0
    /\ gen = G0

ReadIFH ==
    /\ w.pc = "ifh"
    /\ w' = read_ifh(header_bytes, w)
    /\ UNCHANGED <<desc, header_bytes, visited, t, callers, export, gen>>

ReturnResult ==
    /\ w.pc = "while" /\ w.ifh = 0
    /\ w' = return_result(w)
    /\ UNCHANGED <<desc, header_bytes, visited, t, callers, export, gen>>

BeginBlock ==
    /\ w.pc = "while" /\ w.ifh # 0
    /\ w' = begin_block(header_bytes, w)
    /\ visited' = IF Len(visited) < MaxVisited THEN Append(visited, w.ifh) ELSE visited
    /\ UNCHANGED <<desc, header_bytes, t, callers, export, gen>>

DirectoryEntry ==
    /\ w.pc = "for" /\ w.de_i < w.de_count
    /\ w' = directory_entry(header_bytes, w)
    /\ UNCHANGED <<desc, header_bytes, visited, t, callers, export, gen>>

NextBlock ==
    /\ w.pc = "for" /\ w.de_i >= w.de_count
    /\ w' = next_block(header_bytes, w)
    /\ UNCHANGED <<desc, header_bytes, visited, t, callers, export, gen>>

\* The (level, row, col) a caller may ask for: around the index's limits.
MaxTiles ==
    LET counts == {tile_count(p[1]) : p \in DimPairs} \cup {tile_count(p[2]) : p \in DimPairs}
    IN  CHOOSE m \in counts : \A c \in counts : c <= m

LevelInputs == (0 - 1)..MaxLevels

RowInputs == (0 - 1)..(MaxBands * MaxTiles)

ColInputs == (0 - 1)..MaxTiles

\* Lines 144-146: the offset and byte count of tile (level, row, col).
Lookup(level, row, col) ==
    /\ w.pc = "done" /\ t.pc = "idle"
    /\ t' = looked_up(t, result_dict(w), level, row, col)
    /\ UNCHANGED <<desc, header_bytes, w, visited, callers, export, gen>>

\* Line 144: get_tile; the store answers the read as it likes.
GetTile(bucket_exists, answer) ==
    /\ t.pc = "lookup"
    /\ t' = fetched(t, bucket_exists, answer)
    /\ UNCHANGED <<desc, header_bytes, w, visited, callers, export, gen>>

\* Lines 147-149: the tile is materialized and written, or the call raises.
BytesToGeotiff ==
    /\ t.pc = "bytes"
    /\ t' = materialized(t, result_dict(w))
    /\ UNCHANGED <<desc, header_bytes, w, visited, callers, export, gen>>

\* Lines 141-143: bytes_to_geotiff returned and the loops go on to the next
\* tile.  (An exception raised in the loop body is caught nowhere: the
\* script ends with it.)
NextTile ==
    /\ t.pc = "written"
    /\ t' = T0
    /\ UNCHANGED <<desc, header_bytes, w, visited, callers, export, gen>>

Next ==
    \/ ReadIFH
    \/ ReturnResult
    \/ BeginBlock
    \/ DirectoryEntry
    \/ NextBlock
    \/ \E level \in LevelInputs, row \in RowInputs, col \in ColInputs : Lookup(level, row, col)
    \/ \E b \in BOOLEAN : \E a \in StoreAnswers(t.tile_byte_count) : GetTile(b, a)
    \/ BytesToGeotiff
    \/ NextTile

Spec == Init /\ [][Next]_vars

\* cog_header_bytes_parse alone.  Python runs the function to its end
\* without suspending it: a step that can be taken is taken.
WalkNext ==
    \/ ReadIFH
    \/ ReturnResult
    \/ BeginBlock
    \/ DirectoryEntry
    \/ NextBlock

\* The walk over the chains that are all there: pyramids, and pyramids
\* followed by one more block.
WalkInit == Init /\ desc.kind \in {"plain", "tail"}

WalkSpec == WalkInit /\ [][WalkNext]_vars /\ WF_vars(WalkNext)

\* cog_header_bytes_parse run to its end on header h (h is a buffer on
\* which the walk ends).
RECURSIVE RunWalk(_, _)
RunWalk(h, ws) == IF ws.pc \in {"done", "raised"} THEN ws ELSE RunWalk(h, walk_step(h, ws))

\* How many callers fetch and materialize tiles at the same time.
MaxCallers == 2

\* The (level, row, col) the concurrent callers ask for.
CallerTiles == (0..1) \X (0..1) \X (0..1)

\* Lines 148-149: the path of the file of tile (level, row, col).
output_file(level, row, col) == <<level, row, col>>

\* rasterio.open(output_file, 'w') and dst.write: the file at `path` is
\* replaced by the one written.
write_file(files, path, tile) ==
    {f \in files : f.path # path} \cup {[path |-> path, tile |-> tile]}

\* Caller i looks its tile up in the shared index.
CallerLookup(i, level, row, col) ==
    /\ callers.reqs[i].pc = "idle"
    /\ callers' = [callers EXCEPT !.reqs[i] = looked_up(@, result_dict(w), level, row, col)]
    /\ UNCHANGED <<desc, header_bytes, w, visited, t, export, gen>>

\* Caller i fetches its tile; the store returns the bytes asked for.
CallerGetTile(i) ==
    /\ callers.reqs[i].pc = "lookup"
    /\ callers' = [callers EXCEPT !.reqs[i] =
                      fetched(@, TRUE, [kind |-> "data", len |-> @.tile_byte_count])]
    /\ UNCHANGED <<desc, header_bytes, w, visited, t, export, gen>>

\* bytes_to_geotiff multiplying cell_scale in place by the scale of its
\* level: the index is changed for the other callers.
CallerBytesToGeotiff_rescales_index(i) ==
    /\ callers.reqs[i].pc = "bytes"
    /\ LET q == materialized(callers.reqs[i], result_dict(w))
       IN  callers' =
             [reqs |-> [callers.reqs EXCEPT ![i] = q],
              files |-> IF q.pc = "written"
                        THEN write_file(callers.files, output_file(q.level, q.row, q.col),
                                        q.tile)
                        ELSE callers.files]
    /\ w' = [w EXCEPT !.cell_scale = [k \in DOMAIN @ |-> DoubleBytes(k + 1)]]
    /\ UNCHANGED <<desc, header_bytes, visited, t, export, gen>>

\* Caller i materializes its tile and writes its file.
CallerBytesToGeotiff(i) ==
    /\ callers.reqs[i].pc = "bytes"
    /\ LET q == materialized(callers.reqs[i], result_dict(w))
       IN  callers' =
             [reqs |-> [callers.reqs EXCEPT ![i] = q],
              files |-> IF q.pc = "written"
                        THEN write_file(callers.files, output_file(q.level, q.row, q.col),
                                        q.tile)
                        ELSE callers.files]
    /\ UNCHANGED <<desc, header_bytes, w, visited, t, export, gen>>

\* MaxCallers callers share the index cog_header_bytes_parse returned for
\* the pyramid of MaxLevels levels and MaxBands bands with 2 x 2 tiles at
\* its base.
ConcInit ==
    /\ desc = [f |-> [dims |-> <<257, 512>>, bands |-> MaxBands, sample |-> <<8, 1>>,
                      levels |-> MaxLevels],
               kind |-> "plain", arg |-> 0]
    /\ header_bytes = Header(desc)
    /\ w = RunWalk(header_bytes, W0)
    /\ visited = [k \in 1..Len(Blocks(desc)) |-> BlockOffset(Blocks(desc), k)]
    /\ t = T0
    /\ callers = [reqs |-> [i \in 1..MaxCallers |-> T0], files |-> {}]
    /\ export = E0
    /\ gen = G0

ConcNext ==
    \/ \E i \in 1..MaxCallers : \E tile \in CallerTiles :
           CallerLookup(i, tile[1], tile[2], tile[3])
    \/ \E i \in 1..MaxCallers : CallerGetTile(i)
    \/ \E i \in 1..MaxCallers : CallerBytesToGeotiff(i)

ConcSpec == ConcInit /\ [][ConcNext]_vars

(***************************************************************************)
(* COG_Parse.py lines 141-149: the three loops of __main__ that export the *)
(* tiles of the index cog_header_bytes_parse returned.                     *)
(***************************************************************************)
\* How many levels the exported pyramids have at most.
ExportLevels == 4

ExportFiles ==
    [dims : DimPairs, bands : 1..MaxBands, sample : {<<8, 1>>}, levels : 1..ExportLevels]

\* range(a, b)
range(a, b) == [i \in 1..(IF b > a THEN b - a ELSE 0) |-> a + i - 1]

\* Line 141: the levels range(len - 3, len) the outer loop will visit.
ExportBegin ==
    /\ export.pc = "idle" /\ w.pc = "done" /\ t.pc = "idle"
    /\ export' = [export EXCEPT !.pc = "level",
                                !.levels = range(Len(w.tile_offsets) - 3, Len(w.tile_offsets))]
    /\ UNCHANGED <<desc, header_bytes, w, visited, t, callers, gen>>

\* Lines 141-142: the outer loop takes its next level, or ends; the rows
\* of the level are range(0, len(tile_offsets[overview_level])).
ExportLevel ==
    /\ export.pc = "level"
    /\ export' =
         IF export.levels = <<>> THEN [export EXCEPT !.pc = "done"]
         ELSE LET level == Head(export.levels)
                  grid == PyIndex(w.tile_offsets, level)
              IN  IF ~IsOk(grid)
                  THEN [export EXCEPT !.pc = "raised", !.err = grid.err,
                                      !.overview_level = level, !.levels = Tail(@)]
                  ELSE [export EXCEPT !.pc = "row", !.overview_level = level,
                                      !.levels = Tail(@), !.rows = Len(grid.v),
                                      !.row_key = 0 - 1]
    /\ UNCHANGED <<desc, header_bytes, w, visited, t, callers, gen>>

\* Lines 142-143: the middle loop takes its next row, or ends; the columns
\* of the row are range(0, len(tile_offsets[overview_level][0])).
ExportRow ==
    /\ export.pc = "row"
    /\ export' =
         IF export.row_key + 1 >= export.rows THEN [export EXCEPT !.pc = "level"]
         ELSE LET first == PyIndex(PyIndex(w.tile_offsets, export.overview_level).v, 0)
              IN  IF ~IsOk(first)
                  THEN [export EXCEPT !.pc = "raised", !.err = first.err, !.row_key = @ + 1]
                  ELSE [export EXCEPT !.pc = "col", !.row_key = @ + 1,
                                      !.cols = Len(first.v), !.col_key = 0 - 1]
    /\ UNCHANGED <<desc, header_bytes, w, visited, t, callers, gen>>

\* Lines 143-146: the inner loop takes its next column, or ends; the loop
\* body looks up the offset and byte count of tile (level, row, col).
ExportCol ==
    /\ export.pc = "col" /\ t.pc = "idle"
    /\ IF export.col_key + 1 >= export.cols
       THEN /\ export' = [export EXCEPT !.pc = "row"]
            /\ t' = t
       ELSE /\ export' = [export EXCEPT !.pc = "tile", !.col_key = @ + 1,
                                        !.requested = Append(@, <<export.overview_level,
                                                                  export.row_key,
                                                                  export.col_key + 1>>)]
            /\ t' = looked_up(t, result_dict(w), export.overview_level, export.row_key,
                              export.col_key + 1)
    /\ UNCHANGED <<desc, header_bytes, w, visited, callers, gen>>

\* Lines 147-149 returned: the inner loop goes on.
ExportTileDone ==
    /\ export.pc = "tile" /\ t.pc = "written"
    /\ export' = [export EXCEPT !.pc = "col"]
    /\ t' = T0
    /\ UNCHANGED <<desc, header_bytes, w, visited, callers, gen>>

\* Lines 144-149 raised: nothing in __main__ catches, the script ends.
ExportRaised ==
    /\ export.pc = "tile" /\ t.pc = "raised"
    /\ export' = [export EXCEPT !.pc = "raised", !.err = t.err]
    /\ t' = T0
    /\ UNCHANGED <<desc, header_bytes, w, visited, callers, gen>>

\* Line 130 returned: the index of a pyramid, about to be exported.
ExportInit ==
    /\ desc \in {[f |-> f, kind |-> "plain", arg |-> 0] : f \in ExportFiles}
    /\ header_bytes = Header(desc)
    /\ w = RunWalk(header_bytes, W0)
    /\ visited = [k \in 1..Min(Len(Blocks(desc)), MaxVisited) |->
                    BlockOffset(Blocks(desc), k)]
    /\ t = T0
    /\ callers = NoCallers
    /\ export = E0
    /\ gen = G0

ExportNext ==
    \/ ExportBegin
    \/ ExportLevel
    \/ ExportRow
    \/ ExportCol
    \/ (export.pc = "tile" /\ \E b \in BOOLEAN : \E a \in StoreAnswers(t.tile_byte_count) :
                                  GetTile(b, a))
    \/ (export.pc = "tile" /\ BytesToGeotiff)
    \/ ExportTileDone
    \/ ExportRaised

ExportSpec == ExportInit /\ [][ExportNext]_vars

(***************************************************************************)
(* COG_Generate_LRX_copy_from_DHP.py lines 45-63: the overview levels      *)
(* translate_to_COG builds for a raster of RasterXSize x RasterYSize.      *)
(***************************************************************************)
\* Raster sizes: none, one pixel, around one and two and three tiles of 256,
\* the 1667 of the comment of line 44, and sizes that give several levels.
RasterSizes == {0, 1, 255, 256, 511, 512, 767, 768, 1667, 2048, 4100}

TileSizes == {1, 2, 256, 512}

\* int(a / b) for a >= 0 and b >= 1: a / b is the double nearest to the
\* quotient and int() drops its fraction.  The sizes are 32-bit GDAL sizes,
\* for which the double has the integer part of the exact quotient.
int_true_div(a, b) == a \div b

\* An odd maxLevel raised by one.
even_level_rounds_up(maxLevel) == IF maxLevel % 2 = 0 THEN maxLevel ELSE maxLevel + 1

\* Lines 51-54: maxLevel & 1 == 0 keeps maxLevel, else maxLevel - 1.
even_level(maxLevel) == IF maxLevel % 2 = 0 THEN maxLevel ELSE maxLevel - 1

\* Lines 45-48: the shorter side in tiles.  (One of the two conditions
\* holds for every pair of sizes.)
MaxLevelOfSides ==
    /\ gen.pc = "sides"
    /\ gen' = [gen EXCEPT !.pc = "even",
                          !.maxLevel = IF gen.RasterXSize >= gen.RasterYSize
                                       THEN int_true_div(gen.RasterYSize, gen.tilesize)
                                       ELSE int_true_div(gen.RasterXSize, gen.tilesize)]
    /\ UNCHANGED <<desc, header_bytes, w, visited, t, callers, export>>

\* Lines 51-59: maxLevel made even; levels = [], i = 1, level = 2.
MakeEven ==
    /\ gen.pc = "even"
    /\ gen' = [gen EXCEPT !.pc = "while", !.maxLevel = even_level(@), !.levels = <<>>,
                          !.i = 1, !.level = 2]
    /\ UNCHANGED <<desc, header_bytes, w, visited, t, callers, export>>

\* Lines 60-63: one iteration of the while loop.
AppendLevel ==
    /\ gen.pc = "while" /\ gen.level < gen.maxLevel + 1
    /\ gen' = [gen EXCEPT !.levels = Append(@, gen.level), !.i = @ + 1,
                          !.level = Pow2(gen.i + 1)]
    /\ UNCHANGED <<desc, header_bytes, w, visited, t, callers, export>>

\* Line 60: the condition is false, the loop is left.
LevelsDone ==
    /\ gen.pc = "while" /\ ~(gen.level < gen.maxLevel + 1)
    /\ gen' = [gen EXCEPT !.pc = "levels"]
    /\ UNCHANGED <<desc, header_bytes, w, visited, t, callers, export>>

\* translate_to_COG called, line 45 next.
GenInit ==
    /\ desc = [f |-> OneFile, kind |-> "plain", arg |-> 0]
    /\ header_bytes = Header(desc)
    /\ w = W0
    /\ visited = <<>>
    /\ t = T0
    /\ callers = NoCallers
    /\ export = E0
    /\ \E x \in RasterSizes, y \in RasterSizes, ts \in TileSizes :
          gen = [G0 EXCEPT !.pc = "sides", !.RasterXSize = x, !.RasterYSize = y,
                           !.tilesize = ts]

GenNext ==
    \/ MaxLevelOfSides
    \/ MakeEven
    \/ AppendLevel
    \/ LevelsDone

\* translate_to_COG runs without being suspended: a step that can be taken
\* is taken.
GenSpec == GenInit /\ [][GenNext]_vars /\ WF_vars(GenNext)

(***************************************************************************)
(* What the claims speak about                                             *)
(***************************************************************************)
\* The chain is a pyramid whose blocks carry every level tag once, in
\* ascending tag order, possibly with entries or blocks of other tags whose
\* type code is one of the twelve of the type table, and it is all there.
WellFormed(d) ==
    \/ d.kind = "plain"
    \/ d.kind = "unknown" /\ d.arg[1] \in 1..12
    \/ d.kind = "tail" /\ d.arg = "end"

\* cog_header_bytes_parse has just returned its index, or has just ended.
Returned == w.pc = "done" /\ t.pc = "idle"

Ended == w.pc \in {"done", "raised"} /\ t.pc = "idle"

\* ceil(a / 256), written without the code's case split.
TilesAcross(a) == (a + 255) \div 256

U16(h, o) == h[o + 1] + 256 * h[o + 2]

U32(h, o) == h[o + 1] + 256 * h[o + 2] + 65536 * h[o + 3] + 16777216 * h[o + 4]

Last(seq) == seq[Len(seq)]

\* C1: for every level the grid of tag 324 is band-major: the entry at grid
\* row b*R + i, column j is the element at linear index (b*R + i)*C + j of
\* the tag's value array, for all bands b, tile rows i and tile columns j.
C1_BandMajorGrid ==
    (Returned /\ WellFormed(desc)) =>
        \A k \in 1..Len(w.tile_offsets) :
            LET R == TilesAcross(LevelHeight(desc.f, k - 1))
                C == TilesAcross(LevelWidth(desc.f, k - 1))
            IN  \A b \in 0..(desc.f.bands - 1), i \in 0..(R - 1), j \in 0..(C - 1) :
                    w.tile_offsets[k][b * R + i + 1][j + 1] = OffsetAt(k - 1, (b * R + i) * C + j)

GridShapeOk(grid, f, k) ==
    /\ Len(grid) = f.bands * TilesAcross(LevelHeight(f, k - 1))
    /\ \A r \in 1..Len(grid) : Len(grid[r]) = TilesAcross(LevelWidth(f, k - 1))

\* C2: at every point of the walk of a well-formed chain, each grid built so
\* far for tag 324 and for tag 325 has band_count * ceil(height/256) rows of
\* ceil(width/256) columns, height and width being those of its level.
C2_GridShape ==
    WellFormed(desc) =>
        /\ \A k \in 1..Len(w.tile_offsets) : GridShapeOk(w.tile_offsets[k], desc.f, k)
        /\ \A k \in 1..Len(w.tile_byte_counts) : GridShapeOk(w.tile_byte_counts[k], desc.f, k)

\* A pyramid of MaxBands bands and MaxLevels levels of base size 257 x 512
\* (2 x 2 tiles, then one tile) has been indexed to the end.
C2_Witness ==
    /\ Returned /\ desc.kind = "plain" /\ desc.f.bands = MaxBands
    /\ desc.f.dims = <<257, 512>> /\ desc.f.levels = MaxLevels
    /\ Len(w.tile_offsets) = MaxLevels /\ Len(w.tile_byte_counts) = MaxLevels
    /\ Len(w.tile_offsets[1]) = 2 * MaxBands /\ Len(w.tile_offsets[1][1]) = 2
    /\ Len(w.tile_byte_counts[2]) = MaxBands

\* What a caller of cog_header_bytes_parse gets: the index, or an exception.
Outcome(ws) ==
    IF ws.pc = "done" THEN [raised |-> "", index |-> <<result_dict(ws)>>]
    ELSE [raised |-> ws.err, index |-> <<>>]

\* C3: permuting the 12-byte entries of a block never changes what
\* cog_header_bytes_parse returns: a header whose last block is written in
\* another entry order gives the outcome of the same header written in
\* ascending tag order.
C3_EntryOrderIrrelevant ==
    (Ended /\ desc.kind = "order") =>
        Outcome(w) = Outcome(RunWalk(Header([desc EXCEPT !.kind = "plain"]), W0))

\* C4: a header buffer shorter than the data its directory chain
\* references never yields an index: the parse fails.
C4_TruncatedHeaderFails == desc.kind = "cut" => ~Returned

Terminated == w.pc \in {"done", "raised"}

\* C5: the walk always ends: it reaches a next-block offset of 0 and
\* returns, or it stops with an error.
C5_WalkTerminates == <>Terminated

LevelBlockCount(d) ==
    Cardinality({k \in 1..Len(Blocks(d)) :
                    \E i \in 1..Len(Blocks(d)[k].entries) : Blocks(d)[k].entries[i].tag = 256})

\* C6: for a well-formed chain the index holds one level per width-tag
\* entry of the chain, in chain order, and level k's width, height, bits per
\* sample, band count and sample format are those encoded in block k.
C6_LevelsDecoded ==
    (Returned /\ WellFormed(desc)) =>
        /\ Len(w.image_width) = LevelBlockCount(desc)
        /\ w.overview_level = LevelBlockCount(desc) - 1
        /\ w.image_width = [k \in 1..desc.f.levels |-> LevelWidth(desc.f, k - 1)]
        /\ w.image_height = [k \in 1..desc.f.levels |-> LevelHeight(desc.f, k - 1)]
        /\ w.bit_per_sample = [k \in 1..desc.f.levels |-> desc.f.sample[1]]
        /\ w.band_count = [k \in 1..desc.f.levels |-> desc.f.bands]
        /\ w.sample_format = [k \in 1..desc.f.levels |-> desc.f.sample[2]]

\* A chain of MaxLevels blocks of different sizes has been indexed.
C6_Witness ==
    /\ Returned /\ desc.kind = "plain" /\ desc.f.levels = MaxLevels
    /\ desc.f.dims = <<255, 257>> /\ desc.f.sample = <<16, 2>>
    /\ w.image_width[1] = 255 /\ w.image_width[MaxLevels] # 255
    /\ w.bit_per_sample[MaxLevels] = 16 /\ w.sample_format[MaxLevels] = 2

ChainOffsets(d) == [k \in 1..Len(Blocks(d)) |-> BlockOffset(Blocks(d), k)]

\* C7: the walk starts at the offset stored in header bytes 4..7; in the
\* block at offset o with N entries it decodes entry k at o + 2 + 12*k and
\* reads the next-block offset at o + 2 + 12*N; on a well-formed chain it
\* enters exactly the blocks of the chain, each once and in order, and a
\* chain of one block yields an index with exactly one level.
C7_ChainWalk ==
    /\ (w.pc = "while" /\ visited = <<>>) => w.ifh = U32(header_bytes, 4)
    /\ (w.pc = "for" /\ Len(visited) < MaxVisited) =>
           w.ifh = Last(visited) + 2 + 12 * w.de_i
    /\ (w.pc = "while" /\ visited # <<>> /\ Len(visited) < MaxVisited) =>
           w.ifh = U32(header_bytes, Last(visited) + 2 + 12 * w.de_count)
    /\ (Returned /\ WellFormed(desc)) => visited = ChainOffsets(desc)
    /\ (Returned /\ desc.kind = "plain" /\ desc.f.levels = 1) =>
           /\ Len(visited) = 1
           /\ Len(w.image_width) = 1 /\ Len(w.tile_offsets) = 1
           /\ Len(w.tile_byte_counts) = 1

\* The walk went through a chain of MaxLevels level blocks and one more
\* block, and returned.
C7_Witness ==
    /\ Returned /\ desc.kind = "tail" /\ desc.f.levels = MaxLevels
    /\ Len(visited) = MaxLevels + 1 /\ visited[1] = 8 /\ w.de_i = 1

RecognizedTags == {256, 257, 258, 277, 324, 325, 339, 33550, 33922, 34737, 42112, 42113}

\* The for loop is at an entry that lies within the buffer and whose tag is
\* not a recognized one.
AtUnrecognizedEntry ==
    /\ w.pc = "for" /\ w.de_i < w.de_count
    /\ w.ifh + 12 <= Len(header_bytes)
    /\ U16(header_bytes, w.ifh) \notin RecognizedTags

\* C8: an entry with an unrecognized tag is ignored, whatever its type code
\* and count: the step over it raises nothing and changes nothing but the
\* position of the walk, which moves on to the next entry.
C8_UnrecognizedIgnored ==
    [][AtUnrecognizedEntry => w' = [w EXCEPT !.ifh = @ + 12, !.de_i = @ + 1]]_vars

\* Tile (level, row, col) is one the index holds.
InRange(level, row, col) ==
    /\ 0 <= level /\ level < Len(w.image_width)
    /\ 0 <= row /\ row < TilesAcross(w.image_height[level + 1])
    /\ 0 <= col /\ col < TilesAcross(w.image_width[level + 1])

\* C9: on a well-formed chain a lookup of (level, row, col) gives the pair
\* (tile_offsets[level][row][col], tile_byte_counts[level][row][col]) when
\* the tile is in range, and fails in the lookup for every other (level,
\* row, col), negative ones and rows of other bands included.
C9_LookupChecked ==
    (WellFormed(desc) /\ t.pc # "idle") =>
        IF InRange(t.level, t.row, t.col)
        THEN /\ t.at # "lookup"
             /\ t.tile_offset = w.tile_offsets[t.level + 1][t.row + 1][t.col + 1]
             /\ t.tile_byte_count = w.tile_byte_counts[t.level + 1][t.row + 1][t.col + 1]
        ELSE t.pc = "raised" /\ t.at = "lookup"

\* The store's first answer to the request was fewer bytes than asked for.
ShortRead(a) == a.kind = "data" /\ a.len < t.tile_byte_count

\* C10: after a short read the read is made exactly once more; if that
\* fails too the request ends in an IOError; no tile is written from a
\* short read.
C10_ShortReadRetried ==
    (t.pc \in {"bytes", "written", "raised"} /\ t.answers # <<>> /\ ShortRead(t.answers[1])) =>
        /\ t.reads = 2 /\ Len(t.answers) = 2
        /\ (~(t.answers[2].kind = "data" /\ ~ShortRead(t.answers[2])))
              => (t.pc = "raised" /\ t.err = "IOError")
        /\ t.pc = "written" => t.data.len = t.tile_byte_count

\* The request wrote its tile.
Written == t.pc = "written"

\* The first tile of a pyramid: level 0, row 0, column 0.
FirstTile == desc.kind = "plain" /\ t.level = 0 /\ t.row = 0 /\ t.col = 0

\* The rows and columns at the edges of a pixel block.
Edges == {0, 1, 254, 255}

\* The rows and columns compared: all of them in the first tile of each
\* pyramid, the edges in every other tile.
Compared == IF FirstTile THEN 0..255 ELSE Edges

\* C11: the pixel block written has 256 rows of 256 samples; row r of it is
\* row 255 - r of the tile's buffer read as 256 rows of 256 samples, sample
\* by sample in the same column order, for every r in 0..255; reversing its
\* rows once more gives the buffer's own row order back.
C11_RowsFlipped ==
    Written =>
        LET a == t.tile.data_array
        IN  /\ a.shape = <<256, 256>>
            /\ t.data.len = 256 * 256 * a.itemsize
            /\ \A r \in Compared, c \in Compared :
                  element(a, r, c) = sample(t.data, a.itemsize, (255 - r) * 256 + c)
            /\ \A r \in Compared, c \in Edges :
                  element(reverse_rows(a), r, c) = sample(t.data, a.itemsize, r * 256 + c)

\* A tile of 16-bit samples was written whose first and last rows differ.
C11_Witness ==
    /\ Written /\ FirstTile /\ t.tile.data_array.itemsize = 2
    /\ element(t.tile.data_array, 0, 0) # element(t.tile.data_array, 255, 0)
    /\ element(t.tile.data_array, 0, 0) = sample(t.data, 2, 255 * 256)

\* 256 * 2^level: the ground size of a tile of `level`, in base-level pixels.
TileSpan(level) == IF level >= 0 THEN 256 * Pow2(level) ELSE 256 \div Pow2(0 - level)

\* The origin (geo_transform[3], geo_transform[4]) and the cell size
\* (cell_scale[0], cell_scale[1]) of the index: (24, 32) and (3, 4) in every
\* header built here but those that give tag 33922 or 33550 a second time.
OriginX == float64(w.geo_transform[4])

OriginY == float64(w.geo_transform[5])

CellX == float64(w.cell_scale[1])

CellY == float64(w.cell_scale[2])

\* The bounds of tile (row, col) of `level`.
X0(level, col) == OriginX + CellX * TileSpan(level) * col

Y0(level, row) == OriginY - CellY * TileSpan(level) * row

\* C12: the bounds of a written tile are x0 = origin.x + cell.x * 2^level *
\* 256 * col, y0 = origin.y - cell.y * 2^level * 256 * row, and x1, y1 the
\* same with col + 1 and row + 1, the origin being (geo_transform[3],
\* geo_transform[4]) and the cell size (cell_scale[0], cell_scale[1]); hence
\* x1 is the x0 of the tile one column on and y1 the y0 of the tile one row
\* on, and at level 0 a tile spans 256 cells from origin + 256 * cell * index.
C12_TileBounds ==
    Written =>
        LET b == t.tile.metadata.transform.bounds
        IN  /\ desc.kind # "shared" =>
                   (OriginX = 24 /\ OriginY = 32 /\ CellX = 3 /\ CellY = 4)
            /\ b = <<X0(t.level, t.col), Y0(t.level, t.row),
                     X0(t.level, t.col + 1), Y0(t.level, t.row + 1)>>
            /\ b[3] - b[1] = CellX * TileSpan(t.level)
            /\ b[2] - b[4] = CellY * TileSpan(t.level)
            /\ t.level = 0 =>
                   b = <<OriginX + CellX * 256 * t.col, OriginY - CellY * 256 * t.row,
                         OriginX + CellX * 256 * (t.col + 1),
                         OriginY - CellY * 256 * (t.row + 1)>>

\* Tile (1, 1) of level 0 and a tile of level 1 were written with their
\* bounds.
C12_Witness ==
    /\ Written /\ t.row = 1
    /\ \/ t.level = 0 /\ t.col = 1
             /\ t.tile.metadata.transform.bounds = <<792, 0 - 992, 1560, 0 - 2016>>
       \/ t.level = 1 /\ t.col = 0
             /\ t.tile.metadata.transform.bounds = <<24, 0 - 2016, 1560, 0 - 4064>>

\* The request went through bytes_to_geotiff with a buffer, for a level the
\* index has a sample type for.
Materialized ==
    /\ t.pc = "written" \/ (t.pc = "raised" /\ t.at = "bytes_to_geotiff")
    /\ ~t.data.none
    /\ IsOk(PyIndex(w.sample_format, t.level)) /\ IsOk(PyIndex(w.bit_per_sample, t.level))

\* (sample format, bits per sample) of the level the request is for.
RequestedType ==
    <<PyIndex(w.sample_format, t.level).v, PyIndex(w.bit_per_sample, t.level).v>>

\* The pairs materialization supports.
SupportedTypes == ({1, 2} \X {8, 16, 32, 64}) \cup ({3} \X {32, 64})

\* C13: a tile of a supported sample type (formats 1 and 2 at 8, 16, 32, 64
\* bits, format 3 at 32 and 64 bits) is read in samples of that width; for
\* every other pair the materialization fails and the buffer is not read as
\* samples of any type.
C13_UnsupportedTypeRejected ==
    Materialized =>
        IF RequestedType \in SupportedTypes
        THEN Written => t.tile.data_array.itemsize * 8 = RequestedType[2]
        ELSE /\ t.pc = "raised"
             /\ ~IsOk(frombuffer(t.data, get_data_type(RequestedType[1], RequestedType[2])))

\* The buffer handed to bytes_to_geotiff is not 256 * 256 samples of the
\* level's (supported) sample type long.
CorruptTile ==
    /\ Materialized /\ RequestedType \in SupportedTypes
    /\ t.data.len # 256 * 256 * (RequestedType[2] \div 8)

\* C14: materializing a tile whose bytes are not 256 * 256 samples long
\* fails, and the failure is contained: the export is still running and can
\* fetch and materialize the other tiles.
C14_CorruptTileContained == CorruptTile => (t.pc = "raised" /\ ENABLED Next)

\* Two texts name the same reference system: they are equal, or they are
\* the GeoTIFF citation of WGS 84 and its EPSG code.
SameCrs(a, b) == a = b \/ {a, b} \subseteq {CrsText, Epsg4326}

\* C15: a written tile carries the reference system of the index (its crs
\* field, from tag 34737) and the nodata value of the index (its gdal_nodata
\* field, from tag 42113).
C15_TileCarriesCrsAndNodata ==
    Written =>
        /\ SameCrs(t.tile.metadata.crs, w.crs)
        /\ "nodata" \in DOMAIN t.tile.metadata
        /\ t.tile.metadata["nodata"] = w.gdal_nodata

\* The request a single caller ends with when it asks for (level, row, col)
\* of index rd and the store returns the bytes asked for.
SequentialRequest(rd, level, row, col) ==
    LET a == looked_up(T0, rd, level, row, col)
        b == fetched(a, TRUE, [kind |-> "data", len |-> a.tile_byte_count])
    IN  IF a.pc = "raised" THEN a ELSE IF b.pc = "raised" THEN b ELSE materialized(b, rd)

\* C16: fetching and materializing never modify the index; however the
\* steps of the callers interleave, each caller ends with the tile or the
\* error a single caller gets for its (level, row, col), and the file of a
\* written tile holds that tile.
C16_InterleavingIrrelevant ==
    callers.reqs # <<>> =>
        /\ w = RunWalk(header_bytes, W0)
        /\ \A i \in DOMAIN callers.reqs :
              LET q == callers.reqs[i]
              IN  q.pc \in {"written", "raised"} =>
                    /\ q = SequentialRequest(result_dict(w), q.level, q.row, q.col)
                    /\ q.pc = "written" =>
                          [path |-> output_file(q.level, q.row, q.col), tile |-> q.tile]
                              \in callers.files

\* Caller 2 has written its tile while caller 1, asking for another tile,
\* has fetched its bytes and not yet materialized them.
C16_Witness ==
    /\ callers.reqs # <<>>
    /\ callers.reqs[1].pc = "bytes" /\ callers.reqs[2].pc = "written"
    /\ callers.reqs[1].row # callers.reqs[2].row
    /\ Cardinality(callers.files) = 1

\* The last block of the chain has its grid entries (tags 324, 325) where
\* its own width, height or band count is not known: the entry of one of
\* them is absent from the block, or the grid entries are written before it.
GridWithoutDims(d) == d.kind = "drop" \/ d.kind = "order"

\* C17: when a grid entry stands in a block whose width, height or band
\* count is absent or not yet decoded, the parse fails; it returns no index
\* whose grid was sized by another level's width, height or band count.
C17_GridNeedsOwnDims == (Ended /\ GridWithoutDims(desc)) => w.pc = "raised"

\* Where the value of the entry at offset e of header h lies by the rule of
\* the claim: at e + 8 when type width * count is 4 or less, else at the
\* offset stored in the four bytes at e + 8.
ValuePosition(h, e) ==
    IF type_array[U16(h, e + 2) + 1] * U32(h, e + 4) <= 4 THEN e + 8 ELSE U32(h, e + 8)

\* The for loop has just gone over the entry at w.ifh - 12.
EntryDecoded == w.pc = "for" /\ w.de_i >= 1

\* C18: the value of the entry at offset e, of type width w and count n, is
\* decoded from e + 8 when w * n <= 4 (w * n = 4 included) and from the
\* little-endian offset stored at e + 8 when w * n > 4: the walk places it
\* there before it decodes the entry, and the width, bits per sample, first
\* tile offset, first cell size and first crs character it has decoded are
\* the bytes at that place.
C18_InlineOrPointer ==
    /\ (w.pc = "for" /\ w.de_i < w.de_count /\ IsOk(entry_header(header_bytes, w.ifh))) =>
           entry_header(header_bytes, w.ifh).v.p_data = ValuePosition(header_bytes, w.ifh)
    /\ EntryDecoded =>
           LET e == w.ifh - 12
               tag == U16(header_bytes, e)
               pos == ValuePosition(header_bytes, e)
           IN  /\ tag = 256 => Last(w.image_width) = U16(header_bytes, pos)
               /\ tag = 258 => Last(w.bit_per_sample) = U16(header_bytes, pos)
               /\ tag = 324 => Last(w.tile_offsets)[1][1] = U32(header_bytes, pos)
               /\ tag = 33550 =>
                      w.cell_scale[1] = [k \in 1..8 |-> header_bytes[pos + k]]
               /\ (tag = 34737 /\ w.crs # <<>>) => w.crs[1] = header_bytes[pos + 1]

\* The walk has decoded the grid of a tile-offset entry of one 4-byte value
\* from the entry itself, and has just decoded the three cell sizes of tag
\* 33550 from the place the entry points to.
C18_Witness ==
    /\ EntryDecoded /\ desc.kind = "plain" /\ desc.f.bands = 1 /\ desc.f.dims = <<256, 256>>
    /\ U16(header_bytes, w.ifh - 12) = 33550
    /\ U32(header_bytes, w.ifh - 12 + 8) > w.ifh
    /\ w.tile_offsets = <<<<<<10000>>>>>>
    /\ w.cell_scale = <<DoubleBytes(1), DoubleBytes(2), DoubleBytes(3)>>

\* The widths the integer decoders are asked for.
Widths == 1..8

\* The n bytes of h from offset o on are a value below 2^31: integers are
\* compared up to there.
Below2To31(h, o, n) ==
    /\ n >= 4 => h[o + 4] < 128
    /\ \A i \in 5..n : h[o + i] = 0

\* Sum of h[o + i] * 256^i for i in 0..n-1.
Unsigned(h, o, n) ==
    SumSeq([i \in 1..n |-> IF h[o + i] = 0 THEN 0 ELSE h[o + i] * Pow256(i - 1)])

\* The walk has made its first decode (the first block offset, header bytes
\* 4..7) of a header that is all there.
FirstDecoded ==
    /\ w.pc = "while" /\ visited = <<>>
    /\ desc.kind \in {"plain", "short_tile", "crs"}

\* C19: for every width n in 1..8 and every offset o with o + n within the
\* buffer, get_int_ii and get_long both return the sum of buffer[o + i] *
\* 256^i over i in 0..n-1, which is never negative and is below 2^(8n).
C19_UnsignedLittleEndian ==
    FirstDecoded =>
        /\ w.ifh = Unsigned(header_bytes, 4, 4)
        /\ \A n \in Widths :
              \A o \in 0..(Len(header_bytes) - n) :
                  Below2To31(header_bytes, o, n) =>
                      LET a == get_int_ii(header_bytes, o, n)
                          b == get_long(header_bytes, o, n)
                      IN  /\ IsOk(a) /\ IsOk(b)
                          /\ a.v = Unsigned(header_bytes, o, n)
                          /\ b.v = Unsigned(header_bytes, o, n)
                          /\ a.v >= 0 /\ b.v >= 0
                          /\ n <= 3 => (a.v < Pow256(n) /\ b.v < Pow256(n))

\* The first block offset has been decoded from a header that holds a byte
\* above 127, an 8-byte run that is a value below 2^31, and a 3-byte value
\* with its top bit set.
C19_Witness ==
    /\ FirstDecoded /\ w.ifh = 8
    /\ \E o \in 0..(Len(header_bytes) - 8) :
          /\ header_bytes[o + 1] >= 128
          /\ Below2To31(header_bytes, o, 8)
          /\ get_int_ii(header_bytes, o, 8).v = header_bytes[o + 1] + 256 * header_bytes[o + 2]
    /\ \E o \in 0..(Len(header_bytes) - 3) :
          header_bytes[o + 3] >= 128 /\ get_long(header_bytes, o, 3).v >= 8388608

\* The value bytes the first block of scenario d holds for `tag`.
TagValue(d, tag) ==
    LET es == IF Blocks(d) = <<>> THEN <<>> ELSE Blocks(d)[1].entries
        at == {i \in 1..Len(es) : es[i].tag = tag}
    IN  IF at = {} THEN <<>> ELSE es[CHOOSE i \in at : TRUE].val

\* A value with its trailing NUL, if it has one, dropped.
DropTrailingNul(v) == IF v # <<>> /\ Last(v) = 0 THEN SubSeq(v, 1, Len(v) - 1) ELSE v

\* C20: for the ASCII tags 34737, 42112 and 42113 of a header that is all
\* there, the decoded text is the value's bytes with a trailing NUL dropped:
\* the first n - 1 bytes when the last of the n bytes is NUL, and all n bytes
\* when it is not, so that no character other than NUL is lost.
C20_TrailingNulDropped ==
    (Returned /\ desc.kind # "cut") =>
        /\ w.crs = DropTrailingNul(TagValue(desc, 34737))
        /\ w.gdal_metadata = DropTrailingNul(TagValue(desc, 42112))
        /\ w.gdal_nodata = DropTrailingNul(TagValue(desc, 42113))

\* The per-level lists of the returned index, in the order of their
\* initialisation (COG_Parse.py:41-50).
LevelLists(ws) ==
    <<ws.image_width, ws.image_height, ws.bit_per_sample, ws.band_count,
      ws.sample_format, ws.tile_offsets, ws.tile_byte_counts>>

\* C21: every index cog_header_bytes_parse returns has at least one level:
\* none of its per-level lists is empty, also for a header whose first-block
\* offset is 0 and for a chain without a width tag.
C21_AtLeastOneLevel ==
    Returned => \A i \in 1..Len(LevelLists(w)) : Len(LevelLists(w)[i]) >= 1

\* The (rows, columns) of a grid, or no shape when its rows differ in length.
GridShape(grid) ==
    IF grid = <<>> THEN <<0, 0>>
    ELSE IF \A r \in 1..Len(grid) : Len(grid[r]) = Len(grid[1])
    THEN <<Len(grid), Len(grid[1])>> ELSE <<>>

\* The value of the entry with the given tag in block k of scenario d, as a
\* little-endian number; -1 when the block has no such entry.
BlockScalar(d, k, tag) ==
    LET es == Blocks(d)[k].entries
        at == {i \in 1..Len(es) : es[i].tag = tag}
    IN  IF at = {} THEN 0 - 1
        ELSE LittleEndian(es[CHOOSE i \in at : TRUE].val, 0, 0, 2)

\* The per-level list a scalar level tag is appended to.
ScalarList(ws, tag) ==
    CASE tag = 256 -> ws.image_width
      [] tag = 257 -> ws.image_height
      [] tag = 277 -> ws.band_count

\* C22: in every returned index the seven per-level lists have the same
\* length, entry k of the width, height and band-count lists is the value
\* block k of the chain carries for it, and the grids of tags 324 and 325 of
\* each level have the same shape, also when a block omits a level tag.
C22_LevelListsAligned ==
    Returned =>
        /\ \A i \in 1..Len(LevelLists(w)) : Len(LevelLists(w)[i]) = Len(w.image_width)
        /\ \A k \in 1..Len(Blocks(desc)) : \A tag \in {256, 257, 277} :
              BlockScalar(desc, k, tag) >= 0 =>
                  /\ Len(ScalarList(w, tag)) >= k
                  /\ ScalarList(w, tag)[k] = BlockScalar(desc, k, tag)
        /\ \A k \in 1..Min(Len(w.tile_offsets), Len(w.tile_byte_counts)) :
              /\ GridShape(w.tile_offsets[k]) # <<>>
              /\ GridShape(w.tile_offsets[k]) = GridShape(w.tile_byte_counts[k])

\* The request's range read is over and found no bucket or no object.
ReadFoundNothing ==
    /\ t.pc \in {"bytes", "written", "raised"}
    /\ t.at # "lookup"
    /\ \/ t.reads = 0
       \/ \E i \in 1..Len(t.answers) : t.answers[i].kind = "error"

\* C23: a range read against a missing bucket or a missing object raises in
\* get_tile, so the error reaches the caller of the read; the read never
\* hands back a value that is no buffer (None) for bytes_to_geotiff to take.
C23_MissingObjectRaises ==
    /\ ReadFoundNothing => (t.pc = "raised" /\ t.at = "get_tile")
    /\ t.pc = "bytes" => ~t.data.none

\* The buffer h with its bytes 0..3 replaced by m (h as it is when it has
\* fewer than four bytes).
WithMarker(h, m) == IF Len(h) < 4 THEN h ELSE m \o SubSeq(h, 5, Len(h))

\* C24: the outcome of cog_header_bytes_parse does not depend on bytes 0..3
\* of the buffer: the walk of the buffer ends as the walk of every buffer
\* that differs from it in those bytes only, with the same index or the
\* same failure.
C24_MarkerIgnored ==
    Ended => \A m \in Markers :
                Outcome(w) = Outcome(RunWalk(WithMarker(header_bytes, m), W0))

\* The export loops are at level export.overview_level.
AtLevel == export.pc \in {"row", "col", "tile", "raised"}

\* C25: the level the export loops are at is one of the index, 0 <= level <
\* levels, never negative; every (level, row, col) they request has 0 <= row
\* < ceil(height[level]/256) and 0 <= col < ceil(width[level]/256); and no
\* tuple is requested twice.
C25_ExportInRange ==
    /\ AtLevel => export.overview_level \in 0..(Len(w.tile_offsets) - 1)
    /\ \A i \in 1..Len(export.requested) :
          LET q == export.requested[i]
          IN  /\ q[1] \in 0..(Len(w.image_width) - 1)
              /\ q[2] \in 0..(TilesAcross(w.image_height[q[1] + 1]) - 1)
              /\ q[3] \in 0..(TilesAcross(w.image_width[q[1] + 1]) - 1)
    /\ \A i, j \in 1..Len(export.requested) :
          i # j => export.requested[i] # export.requested[j]

\* The offsets of the entries of the chain of scenario d, in chain order.
ChainEntries(d) ==
    LET blocks == Blocks(d)
    IN  Concat([k \in 1..Len(blocks) |->
                  LET o == BlockOffset(blocks, k)
                  IN  [j \in 1..Len(blocks[k].entries) |-> o + 2 + 12 * (j - 1)]])

\* The offset of the last entry on the chain that carries the tag; -1 when
\* no entry does.
LastEntry(h, es, tag) ==
    LET at == {i \in 1..Len(es) : U16(h, es[i]) = tag}
    IN  IF at = {} THEN 0 - 1 ELSE es[CHOOSE i \in at : \A j \in at : j <= i]

BytesAt(h, pos, n) == [k \in 1..n |-> h[pos + k]]

\* The value of the entry at offset e as its tag's decoder reads it: the
\* doubles of tags 33550 and 33922, and all but the last character of the
\* text of tags 34737, 42112 and 42113.
SharedValue(h, e) ==
    LET n == U32(h, e + 4)
        pos == ValuePosition(h, e)
    IN  IF U16(h, e) \in {33550, 33922}
        THEN [i \in 1..n |-> BytesAt(h, pos + 8 * (i - 1), 8)]
        ELSE BytesAt(h, pos, n - 1)

SharedField(ws, tag) ==
    CASE tag = 33550 -> ws.cell_scale
      [] tag = 33922 -> ws.geo_transform
      [] tag = 34737 -> ws.crs
      [] tag = 42112 -> ws.gdal_metadata
      [] tag = 42113 -> ws.gdal_nodata

\* C26: in the index returned for a header that is all there, each of
\* cell_scale, geo_transform, crs, gdal_metadata and gdal_nodata holds the
\* value of the last entry on the chain that carries its tag, whatever
\* blocks without the tag come after it, and is empty, as it was
\* initialised, when no entry of the chain carries the tag.
C26_SharedFieldsLastWins ==
    (Returned /\ desc.kind # "cut") =>
        LET es == ChainEntries(desc)
        IN  \A tag \in SharedTags :
                LET e == LastEntry(header_bytes, es, tag)
                IN  SharedField(w, tag) =
                        IF e < 0 THEN <<>> ELSE SharedValue(header_bytes, e)

\* A second block has given tag 34737 again and the index holds its value;
\* its cell_scale is the first block's, the second block having none.
C26_Witness ==
    /\ Returned /\ desc.kind = "shared" /\ desc.arg = 34737
    /\ Len(Blocks(desc)) >= 2
    /\ w.crs = OtherCrsText /\ w.crs # DropTrailingNul(TagValue(desc, 34737))
    /\ w.cell_scale = [i \in 1..3 |-> DoubleBytes(i)]

\* floor(min(X, Y) / tilesize), lowered by one when odd.
ExpectedMaxLevel ==
    LET q == Min(gen.RasterXSize, gen.RasterYSize) \div gen.tilesize
    IN  q - (q % 2)

\* The powers of two 2^1, 2^2, ... that are at most m, in increasing order.
PowersUpTo(m) == [j \in 1..Cardinality({k \in 1..30 : Pow2(k) <= m}) |-> Pow2(j)]

\* The while loop of translate_to_COG has been left.
LevelsBuilt == gen.pc = "levels"

\* What holds of the level list at each point of translate_to_COG.
LevelsAsExpected ==
    /\ gen.pc \in {"while", "levels"} =>
          /\ gen.maxLevel = ExpectedMaxLevel
          /\ gen.level = Pow2(Len(gen.levels) + 1)
          /\ gen.levels = SubSeq(PowersUpTo(gen.maxLevel), 1, Len(gen.levels))
    /\ LevelsBuilt => gen.levels = PowersUpTo(ExpectedMaxLevel)

\* C27: for raster sizes X, Y >= 0 and tilesize >= 1, maxLevel is
\* floor(min(X, Y) / tilesize) lowered by one when odd, the while loop is
\* left after finitely many iterations, and levels is then exactly the
\* increasing powers of two 2^i, i >= 1, with 2^i <= maxLevel (the empty
\* list when maxLevel < 2).
C27_OverviewLevels == []LevelsAsExpected /\ <>LevelsBuilt

\* The raster of the comment of line 44: 1667 x 1667 with tiles of 256
\* gives maxLevel 6 and the levels 2 and 4.
C27_Witness ==
    /\ LevelsBuilt
    /\ gen.RasterXSize = 1667 /\ gen.RasterYSize = 1667 /\ gen.tilesize = 256
    /\ gen.maxLevel = 6 /\ gen.levels = <<2, 4>>

=============================================================================
